---------------------------- MODULE Spec2Model ----------------------------
(***************************************************************************)
(* Model of the invoice downloader content script                          *)
(* (src/IMPLEMENTATION_GUIDE.md, lines 186-1078): the row parser, the      *)
(* chunked initialization, the status store and the filter memoization of  *)
(* InvoiceDataManager, the debounce of FilterManager and the download loop *)
(* of InvoiceDownloader.                                                   *)
(*                                                                         *)
(* Conventions.  An invoice id is a natural number: 0 stands for the empty *)
(* string '' and i > 0 for the i-th distinct invoice number of the table.  *)
(* A date is a natural number: 0 stands for the empty string '' and d > 0  *)
(* for the d-th day (ISO 'YYYY-MM-DD' strings compare as their days do).   *)
(* A text is a sequence of one-character strings.  An array of row-data    *)
(* objects (filteredRows, downloadQueue, a cached filter result) is a      *)
(* sequence of row indexes into allRows, since the code shares the row     *)
(* objects by reference.  Date.now() timestamps are left out: nothing      *)
(* reads them.                                                             *)
(***************************************************************************)
EXTENDS Integers, Sequences, FiniteSets

VARIABLES
    tableRows,            \* the `tbody tr` rows of the invoice table, each a sequence of cells
    isInitialized,        \* InvoiceDataManager.isInitialized
    rowDataCache,         \* InvoiceDataManager.rowDataCache: Map index -> row data
    initState,            \* where init() stands, and the chunks processed so far
    viewButton,           \* the View button read by parseRowData and its buttonData
    allRows,              \* InvoiceDataManager.allRows: sequence of row data
    filteredRows,         \* InvoiceDataManager.filteredRows
    filterCache,          \* InvoiceDataManager.filterCache: insertion-ordered Map
    currentFilters,       \* FilterManager.currentFilters
    debounceTimer,        \* FilterManager.debounceTimer: is a timeout pending
    downloadedInvoices,   \* InvoiceDataManager.downloadedInvoices: Set of ids
    downloadStatus,       \* InvoiceDataManager.downloadStatus: Map id -> entry
    stored,               \* chrome.storage.local under the two storage keys
    isDownloading,        \* InvoiceDownloader.isDownloading
    downloadQueue,        \* InvoiceDownloader.downloadQueue
    currentDownloadIndex, \* InvoiceDownloader.currentDownloadIndex
    progressVisible,      \* #amz-progress-container is displayed (Cancel reachable)
    downloadDisabled,     \* #amz-download-selected.disabled
    loops,                \* the invocations of startDirectDownload that entered the loop
    lastAlert,            \* the last alert() dialog shown
    attempt,              \* the call of downloadPdfDirect in flight: its await and its timer
    csState,              \* content.js: "loading" until init() has run, then "ready"
    csGet,                \* content.js: the chrome.storage.local.get of loadDownloadedInvoices
    csDownloadedInvoices, \* content.js: downloadedInvoices
    csStored,             \* chrome.storage.local under content.js's storage key
    csRows,               \* content.js: per table row its checkbox and its status cell
    csButtonDisabled,     \* content.js: #amz-download-selected is disabled
    csIsDownloading,      \* content.js: isDownloading
    bulk,                 \* content.js: the call of startBulkDownload in flight
    csAlert,              \* content.js: the last alert() dialog shown
    messages,             \* expect_download messages sent and not yet delivered
    isMonitoring,         \* background.js
    currentDownloadInfo,  \* background.js
    monitoringTabId,      \* background.js
    tabs,                 \* the tabs opened by View clicks, with their pending events
    downloads,            \* the calls of chrome.downloads.download made so far
    failuresRecorded,     \* history: markAsFailed calls per id since the last clear
    successRecorded,      \* history: ids with a markAsDownloaded call since the last clear
    clearedHistory,       \* history: the last store operation was a clear of a non-empty store
    lastApplied           \* history: the cache key of the last applyFilters call (<<>> if
                          \* none) and whether the call before it had the same key

storeVars  == <<downloadedInvoices, downloadStatus, stored, failuresRecorded, successRecorded,
                clearedHistory>>
filterVars == <<filteredRows, filterCache, currentFilters, debounceTimer, lastApplied>>
runVars    == <<isDownloading, downloadQueue, currentDownloadIndex, progressVisible, loops, lastAlert>>
initVars   == <<tableRows, isInitialized, rowDataCache, initState, viewButton>>
contentVars == <<csState, csGet, csDownloadedInvoices, csStored, csRows, csButtonDisabled,
                 csIsDownloading, bulk, csAlert>>
backgroundVars == <<messages, isMonitoring, currentDownloadInfo, monitoringTabId, tabs,
                    downloads>>
tabVars == <<contentVars, backgroundVars>>
pageVars == <<initVars, attempt, allRows, filterVars, storeVars, runVars, downloadDisabled>>
vars == <<pageVars, tabVars>>

----------------------------------------------------------------------------
(* Bounds of the model *)

NumRows == 3        \* rows of the invoice table
MaxRuns == 2        \* download runs started in one behaviour
MaxAttempts == 4    \* status updates per id explored by the store specification
MaxStoreId == 1     \* the store specification uses the ids 0..MaxStoreId
MaxDay == 51        \* the cache specification picks dateFrom in 0..MaxDay
MaxCached == 1      \* distinct filter values applied by the filter-input specification

(* Program constants *)

RETRY_ATTEMPTS == 3
CHUNK_SIZE == 100
FILTER_CACHE_LIMIT == 50

Rows == 1..NumRows
Ids == 0..NumRows
\* error.message of a failed retrieval
Errors == {"Download timeout", "Empty PDF received"}

----------------------------------------------------------------------------
(* The table: the row data parseRowData produces for row i *)

RowText(i) ==
    IF i % 2 = 1 THEN <<"a", ".", "d", "e">> ELSE <<"a", ".", "p", "l">>

RowStartDate(i) == IF i % 3 = 0 THEN 0 ELSE 10 * i

RowEndDate(i) == IF i % 3 = 0 THEN 0 ELSE 10 * i + 5

RowData(i) ==
    [index |-> i, invoiceId |-> i, startDate |-> RowStartDate(i),
     endDate |-> RowEndDate(i), textContent |-> RowText(i), isSelected |-> FALSE]

----------------------------------------------------------------------------
(* Status store: InvoiceDataManager *)

NoEntry == [status |-> "none", attempts |-> 0, error |-> ""]

\* downloadStatus.get(invoiceId)?.attempts || 0
AttemptsOf(ds, id) == ds[id].attempts

\* chrome.storage.local without the two storage keys
NothingStored == [present |-> FALSE, ids |-> <<>>, status |-> <<>>]

\* Array.from(set): the ids as an array (the model's set keeps no insertion
\* order; the array lists them in ascending order)
ArrayFrom(set) ==
    [k \in 1..Cardinality(set) |->
        CHOOSE x \in set : Cardinality({y \in set : y < x}) = k - 1]

\* Object.fromEntries(map): an object with one own key per entry of the map
fromEntries(ds) == [id \in {j \in DOMAIN ds : ds[j] # NoEntry} |-> ds[id]]

\* new Set(array)
SetOf(array) == {array[k] : k \in 1..Len(array)}

\* new Map(Object.entries(object)), as a map over the ids `keys`
MapOfEntries(object, keys) ==
    [id \in keys |-> IF id \in DOMAIN object THEN object[id] ELSE NoEntry]

StoredImage(dl, ds) == [present |-> TRUE, ids |-> ArrayFrom(dl), status |-> fromEntries(ds)]

\* Faulty variant: only the array of downloaded ids is written.
saveDownloadStatus_IdsOnly(dl, ds) ==
    stored' = [present |-> TRUE, ids |-> ArrayFrom(dl), status |-> stored.status]

saveDownloadStatus(dl, ds) ==
    stored' = StoredImage(dl, ds)

\* What loadDownloadStatus leaves in downloadedInvoices and downloadStatus
LoadedIds(image, dl) == IF image.present THEN SetOf(image.ids) ELSE dl

LoadedStatus(image, ds) ==
    IF image.present THEN MapOfEntries(image.status, DOMAIN ds) ELSE ds

\* Faulty variant: a success restarts the attempt count.
DownloadedEntry_Restart(ds, id) ==
    [status |-> "downloaded", attempts |-> 1, error |-> ""]

DownloadedEntry(ds, id) ==
    [status |-> "downloaded", attempts |-> AttemptsOf(ds, id) + 1, error |-> ""]

FailedEntry(ds, id, error) ==
    [status |-> "failed", attempts |-> AttemptsOf(ds, id) + 1, error |-> error]

markAsDownloaded(invoiceId) ==
    /\ downloadedInvoices' = downloadedInvoices \cup {invoiceId}
    /\ downloadStatus' =
          [downloadStatus EXCEPT ![invoiceId] = DownloadedEntry(downloadStatus, invoiceId)]
    /\ saveDownloadStatus(downloadedInvoices', downloadStatus')
    /\ successRecorded' = successRecorded \cup {invoiceId}
    /\ clearedHistory' = FALSE
    /\ UNCHANGED failuresRecorded

markAsFailed(invoiceId, error) ==
    /\ UNCHANGED downloadedInvoices
    /\ downloadStatus' =
          [downloadStatus EXCEPT ![invoiceId] = FailedEntry(downloadStatus, invoiceId, error)]
    /\ saveDownloadStatus(downloadedInvoices', downloadStatus')
    /\ failuresRecorded' = [failuresRecorded EXCEPT ![invoiceId] = @ + 1]
    /\ clearedHistory' = FALSE
    /\ UNCHANGED successRecorded

\* Faulty variant: the status entry is consulted before the downloaded set.
DeriveStatus_EntryFirst(dl, ds, id) ==
    IF ds[id].status = "failed" /\ ds[id].attempts >= RETRY_ATTEMPTS THEN "failed"
    ELSE IF id \in dl THEN "downloaded"
    ELSE "pending"

\* Faulty variant: the ceiling test is > instead of >=.
DeriveStatus_StrictCeiling(dl, ds, id) ==
    IF id \in dl THEN "downloaded"
    ELSE IF ds[id].status = "failed" /\ ds[id].attempts > RETRY_ATTEMPTS THEN "failed"
    ELSE "pending"

DeriveStatus(dl, ds, id) ==
    IF id \in dl THEN "downloaded"
    ELSE IF ds[id].status = "failed" /\ ds[id].attempts >= RETRY_ATTEMPTS THEN "failed"
    ELSE "pending"

getDownloadStatus(invoiceId) == DeriveStatus(downloadedInvoices, downloadStatus, invoiceId)

\* Faulty variant: only the downloaded set is emptied.
clearDownloadHistory_SetOnly ==
    /\ downloadedInvoices' = {}
    /\ stored' = NothingStored
    /\ clearedHistory' = (downloadedInvoices # {})
    /\ UNCHANGED <<downloadStatus, failuresRecorded, successRecorded>>

clearDownloadHistory ==
    /\ downloadedInvoices' = {}
    /\ downloadStatus' = [id \in DOMAIN downloadStatus |-> NoEntry]
    /\ stored' = NothingStored
    /\ failuresRecorded' = [id \in DOMAIN failuresRecorded |-> 0]
    /\ successRecorded' = {}
    /\ clearedHistory' =
          \/ downloadedInvoices # {}
          \/ \E id \in DOMAIN downloadStatus : downloadStatus[id] # NoEntry

----------------------------------------------------------------------------
(* Filtering: InvoiceDataManager.applyFilters and FilterManager *)

NoFilters == [marketplace |-> <<>>, dateFrom |-> 0, dateTo |-> 0, status |-> ""]

LowerChar(c) ==
    CASE c = "D" -> "d"
      [] c = "E" -> "e"
      [] c = "P" -> "p"
      [] c = "L" -> "l"
      [] c = "A" -> "a"
      [] OTHER -> c

toLowerCase(text) == [k \in 1..Len(text) |-> LowerChar(text[k])]

\* String.prototype.includes
includes(text, sub) ==
    /\ Len(sub) <= Len(text)
    /\ \E k \in 0..(Len(text) - Len(sub)) : SubSeq(text, k + 1, k + Len(sub)) = sub

\* JSON.stringify(filters): the four fields in their fixed key order
cacheKey(filters) ==
    <<filters.marketplace, filters.dateFrom, filters.dateTo, filters.status>>

\* Faulty variant: a row whose endDate is dateFrom itself is excluded.
PassesFilters_StrictFrom(filters, data, dl, ds) ==
    /\ ~ (filters.marketplace # <<>>
            /\ ~ includes(data.textContent, toLowerCase(filters.marketplace)))
    /\ ~ (filters.dateFrom # 0 /\ data.endDate # 0 /\ data.endDate <= filters.dateFrom)
    /\ ~ (filters.dateTo # 0 /\ data.startDate # 0 /\ data.startDate > filters.dateTo)
    /\ ~ (filters.status # ""
            /\ filters.status # DeriveStatus(dl, ds, data.invoiceId))

\* The predicate of allRows.filter(...) in applyFilters
PassesFilters(filters, data, dl, ds) ==
    /\ ~ (filters.marketplace # <<>>
            /\ ~ includes(data.textContent, toLowerCase(filters.marketplace)))
    /\ ~ (filters.dateFrom # 0 /\ data.endDate # 0 /\ data.endDate < filters.dateFrom)
    /\ ~ (filters.dateTo # 0 /\ data.startDate # 0 /\ data.startDate > filters.dateTo)
    /\ ~ (filters.status # ""
            /\ filters.status # DeriveStatus(dl, ds, data.invoiceId))

RowIndexes(rows) == [i \in 1..Len(rows) |-> i]

\* Faulty variant: the passing rows come out last row first.
FilterRows_Reversed(filters, rows, dl, ds) ==
    LET kept == SelectSeq(RowIndexes(rows), LAMBDA i : PassesFilters(filters, rows[i], dl, ds))
    IN [k \in 1..Len(kept) |-> kept[Len(kept) + 1 - k]]

FilterRows(filters, rows, dl, ds) ==
    SelectSeq(RowIndexes(rows), LAMBDA i : PassesFilters(filters, rows[i], dl, ds))

CacheHas(cache, key) == \E k \in 1..Len(cache) : cache[k].key = key

CacheGet(cache, key) == cache[CHOOSE k \in 1..Len(cache) : cache[k].key = key].rows

\* Faulty variant: the key inserted last is dropped.
EvictIfFull_Newest(cache) ==
    IF Len(cache) > FILTER_CACHE_LIMIT THEN SubSeq(cache, 1, Len(cache) - 1) ELSE cache

\* "Cache management": drop the first key when the size exceeds the limit
EvictIfFull(cache) ==
    IF Len(cache) > FILTER_CACHE_LIMIT THEN Tail(cache) ELSE cache

\* Faulty variant: a key found in the cache is filtered again.
applyFilters_Recompute(filters) ==
    /\ lastApplied' = [key |-> cacheKey(filters),
                       repeated |-> lastApplied.key = cacheKey(filters)]
    /\ filteredRows' = FilterRows(filters, allRows, downloadedInvoices, downloadStatus)
    /\ filterCache' =
          IF CacheHas(filterCache, cacheKey(filters)) THEN filterCache
          ELSE Append(EvictIfFull(filterCache),
                      [key |-> cacheKey(filters), rows |-> filteredRows'])

\* InvoiceDataManager.applyFilters(filters), on the current status store
applyFilters(filters) ==
    LET key == cacheKey(filters) IN
    /\ lastApplied' = [key |-> key, repeated |-> lastApplied.key = key]
    /\ IF CacheHas(filterCache, key)
       THEN /\ filteredRows' = CacheGet(filterCache, key)
            /\ UNCHANGED filterCache
       ELSE /\ filteredRows' =
                  FilterRows(filters, allRows, downloadedInvoices, downloadStatus)
            /\ filterCache' =
                  Append(EvictIfFull(filterCache), [key |-> key, rows |-> filteredRows'])

\* updateSelectionCount: the Download button is disabled when no selected row of
\* the filtered view is pending or failed
NothingToDownload(rows, view, dl, ds) ==
    ~ \E k \in 1..Len(view) :
          /\ rows[view[k]].isSelected
          /\ DeriveStatus(dl, ds, rows[view[k]].invoiceId) \in {"pending", "failed"}

\* InvoiceDownloader.updateDisplay, as far as it changes state
updateDisplay ==
    downloadDisabled' =
        NothingToDownload(allRows', filteredRows', downloadedInvoices', downloadStatus')

\* Faulty variant: the filters are applied at once instead of after the timeout.
updateFilter_Immediate(filterType, value) ==
    /\ currentFilters' = [currentFilters EXCEPT ![filterType] = value]
    /\ applyFilters(currentFilters')
    /\ UNCHANGED <<tabVars, initVars, attempt, allRows, debounceTimer, storeVars, runVars>>
    /\ updateDisplay

\* FilterManager.updateFilter(filterType, value)
updateFilter(filterType, value) ==
    /\ currentFilters' = [currentFilters EXCEPT ![filterType] = value]
    /\ debounceTimer' = TRUE
    /\ UNCHANGED <<tabVars, initVars, attempt, allRows, filteredRows, filterCache, lastApplied, storeVars, runVars,
                   downloadDisabled>>

\* click on #amz-quick-6months: updateFilter('dateFrom', ..) then
\* updateFilter('dateTo', ..) in one handler; from and to are the days the
\* handler computes from the clock
quick6Months(from, to) ==
    /\ currentFilters' = [currentFilters EXCEPT !.dateFrom = from, !.dateTo = to]
    /\ debounceTimer' = TRUE
    /\ UNCHANGED <<tabVars, initVars, attempt, allRows, filteredRows, filterCache, lastApplied, storeVars, runVars,
                   downloadDisabled>>

\* The debounce timeout fires: FilterManager.applyFilters
debounceFire ==
    /\ debounceTimer
    /\ debounceTimer' = FALSE
    /\ applyFilters(currentFilters)
    /\ UNCHANGED <<tabVars, initVars, attempt, allRows, currentFilters, storeVars, runVars>>
    /\ updateDisplay

\* Faulty variant: the fields are reset and the view is left as it was.
clearFilters_KeepView ==
    /\ currentFilters' = NoFilters
    /\ UNCHANGED <<tabVars, initVars, attempt, allRows, filteredRows, filterCache, lastApplied,
                   debounceTimer, storeVars, runVars, downloadDisabled>>

\* FilterManager.clearFilters (the pending timeout, if any, is not cleared)
clearFilters ==
    /\ currentFilters' = NoFilters
    /\ applyFilters(NoFilters)
    /\ UNCHANGED <<tabVars, initVars, attempt, allRows, debounceTimer, storeVars, runVars>>
    /\ updateDisplay

----------------------------------------------------------------------------
(* Selection and history buttons: the listeners of attachEventListeners *)

SetSelected(rows, which, selected) ==
    [i \in 1..Len(rows) |->
        IF i \in which THEN [rows[i] EXCEPT !.isSelected = selected] ELSE rows[i]]

ViewRows(view) == {view[k] : k \in 1..Len(view)}

\* Faulty variant: every record is written, not only those of the view.
selectAllVisible_AllRecords(selected) ==
    /\ allRows' = SetSelected(allRows, 1..Len(allRows), selected)
    /\ UNCHANGED <<tabVars, initVars, attempt, filterVars, storeVars, runVars>>
    /\ updateDisplay

\* change on #amz-select-all: selectAllVisible(checked), updateDisplay
selectAllVisible(selected) ==
    /\ allRows' = SetSelected(allRows, ViewRows(filteredRows), selected)
    /\ UNCHANGED <<tabVars, initVars, attempt, filterVars, storeVars, runVars>>
    /\ updateDisplay

\* click on #amz-select-pending / #amz-select-failed: selectByStatus(status, true)
selectByStatus(status, selected) ==
    /\ allRows' =
          SetSelected(allRows,
                      {i \in ViewRows(filteredRows) :
                          getDownloadStatus(allRows[i].invoiceId) = status},
                      selected)
    /\ UNCHANGED <<tabVars, initVars, attempt, filterVars, storeVars, runVars>>
    /\ updateDisplay

\* click on #amz-clear-history, confirmed: clearDownloadHistory, updateDisplay
clearHistoryClick ==
    /\ clearDownloadHistory
    /\ UNCHANGED <<tabVars, initVars, attempt, allRows, filterVars, runVars>>
    /\ updateDisplay

----------------------------------------------------------------------------
(* Download loop: InvoiceDownloader.startDirectDownload / cancelDownload.   *)
(* A loop is one invocation of startDirectDownload that passed its guards;  *)
(* it is suspended either at `await downloadPdfDirect` (pc "retrieving") or *)
(* at `await sleep` (pc "sleeping"), and is "done" after its final alert.   *)
(* The fields selection, cancelRequested, skipped, started and updated are  *)
(* history: the queue the loop started with, whether a cancel request came  *)
(* while it was suspended, the rows it had not started at that request, and *)
(* per row how many retrievals it started and status updates it made.       *)

ZeroPerRow == [r \in Rows |-> 0]

Active(l) == l.pc \in {"retrieving", "sleeping"}

\* The rows startDirectDownload selects: selected rows of the filtered view whose
\* status is pending or failed
SelectedRows ==
    SelectSeq(filteredRows,
              LAMBDA i : /\ allRows[i].isSelected
                         /\ getDownloadStatus(allRows[i].invoiceId) \in {"pending", "failed"})

\* `if (this.isDownloading) return;`
StartGuard == isDownloading

NewLoop(queue) ==
    [pc |-> "retrieving", i |-> 0, invoiceData |-> queue[1],
     successCount |-> 0, failureCount |-> 0,
     selection |-> queue, cancelRequested |-> FALSE, skipped |-> {},
     started |-> [ZeroPerRow EXCEPT ![queue[1]] = 1], updated |-> ZeroPerRow,
     reported |-> "none"]

\* click on #amz-download-selected while a run is going on: rejected
startRejected ==
    /\ ~ downloadDisabled
    /\ StartGuard
    /\ UNCHANGED vars

\* click on #amz-download-selected with nothing to download: alert and return
startNothingSelected ==
    /\ ~ downloadDisabled
    /\ ~ StartGuard
    /\ SelectedRows = <<>>
    /\ lastAlert' = [kind |-> "select", a |-> 0, b |-> 0]
    /\ UNCHANGED <<tabVars, initVars, attempt, allRows, filterVars, storeVars, isDownloading, downloadQueue,
                   currentDownloadIndex, progressVisible, loops, downloadDisabled>>

\* click on #amz-download-selected: the run starts and suspends at the retrieval
\* of its first item
startDirectDownload ==
    /\ ~ downloadDisabled
    /\ ~ StartGuard
    /\ SelectedRows # <<>>
    /\ Len(loops) < MaxRuns
    /\ isDownloading' = TRUE
    /\ downloadQueue' = SelectedRows
    /\ currentDownloadIndex' = 0
    /\ progressVisible' = TRUE          \* showProgress
    /\ downloadDisabled' = TRUE
    /\ loops' = Append(loops, NewLoop(SelectedRows))
    /\ UNCHANGED <<tabVars, initVars, attempt, allRows, filterVars, storeVars, lastAlert>>

\* The statements after the for loop: hideProgress, isDownloading = false, alert
LoopExit(k, l) ==
    /\ loops' = [loops EXCEPT ![k] = [l EXCEPT !.pc = "done", !.reported = "Completed"]]
    /\ progressVisible' = FALSE
    /\ downloadDisabled' = FALSE
    /\ isDownloading' = FALSE
    /\ lastAlert' = [kind |-> "completed", a |-> l.successCount, b |-> l.failureCount]

\* Next iteration of the for loop of loop k, whose counter is already incremented
\* in l: test `i < downloadQueue.length && isDownloading`, then start the
\* retrieval of downloadQueue[i] or leave the loop
LoopHead(k, l) ==
    IF l.i < Len(downloadQueue) /\ isDownloading
    THEN LET r == downloadQueue[l.i + 1] IN
         /\ currentDownloadIndex' = l.i
         /\ loops' = [loops EXCEPT ![k] =
                         [l EXCEPT !.pc = "retrieving", !.invoiceData = r,
                                   !.started = [@ EXCEPT ![r] = @ + 1]]]
         /\ UNCHANGED <<isDownloading, progressVisible, lastAlert, downloadDisabled>>
    ELSE /\ LoopExit(k, l)
         /\ UNCHANGED currentDownloadIndex

\* `await downloadPdfDirect(invoiceData)` of loop k settles: the status update,
\* updateDisplay, then either the inter-item sleep or the end of the loop
retrievalSettles(k, ok, error) ==
    /\ k \in 1..Len(loops)
    /\ loops[k].pc = "retrieving"
    /\ UNCHANGED <<tabVars, initVars, attempt, allRows, filterVars, downloadQueue>>
    /\ LET l  == loops[k]
           r  == l.invoiceData
           l2 == [l EXCEPT !.updated = [@ EXCEPT ![r] = @ + 1],
                           !.successCount = IF ok THEN @ + 1 ELSE @,
                           !.failureCount = IF ok THEN @ ELSE @ + 1]
       IN /\ IF ok THEN markAsDownloaded(allRows[r].invoiceId)
                   ELSE markAsFailed(allRows[r].invoiceId, error)
          /\ IF l.i < Len(downloadQueue) - 1 /\ isDownloading
             THEN /\ loops' = [loops EXCEPT ![k] = [l2 EXCEPT !.pc = "sleeping"]]
                  /\ updateDisplay
                  /\ UNCHANGED <<isDownloading, progressVisible, lastAlert,
                                 currentDownloadIndex>>
             ELSE /\ LoopExit(k, [l2 EXCEPT !.i = @ + 1])
                  /\ UNCHANGED currentDownloadIndex

\* `await sleep(DELAY_BETWEEN_DOWNLOADS)` of loop k ends: i++ and the loop test
sleepEnds(k) ==
    /\ k \in 1..Len(loops)
    /\ loops[k].pc = "sleeping"
    /\ LoopHead(k, [loops[k] EXCEPT !.i = @ + 1])
    /\ UNCHANGED <<tabVars, initVars, attempt, allRows, filterVars, storeVars, downloadQueue>>

NotStarted(l) == {r \in Rows : \E p \in 1..Len(l.selection) : l.selection[p] = r /\ l.started[r] = 0}

\* click on #amz-cancel-download: InvoiceDownloader.cancelDownload.  The abort()
\* of DirectDownloadManager.cancelDownload only rejects a retrieval that is at its
\* PDF fetch; retrievalSettles leaves the outcome of a retrieval open.
cancelDownload ==
    /\ progressVisible
    /\ isDownloading' = FALSE
    /\ progressVisible' = FALSE         \* hideProgress
    /\ downloadDisabled' = FALSE
    /\ lastAlert' = [kind |-> "cancelled", a |-> currentDownloadIndex,
                     b |-> Len(downloadQueue)]
    /\ loops' = [k \in 1..Len(loops) |->
                    IF Active(loops[k]) /\ ~ loops[k].cancelRequested
                    THEN [loops[k] EXCEPT !.cancelRequested = TRUE,
                                          !.skipped = NotStarted(loops[k])]
                    ELSE loops[k]]
    /\ UNCHANGED <<tabVars, initVars, attempt, allRows, filterVars, storeVars, downloadQueue, currentDownloadIndex>>

----------------------------------------------------------------------------
(* One retrieval: DirectDownloadManager.downloadPdfDirect, followed step by  *)
(* step.  attempt.phase names the await the call is suspended at: the POST   *)
(* of getPdfUrlFromAmazon ("urlFetch"), its response.json() ("urlJson"), the *)
(* fetch of the PDF ("pdfFetch"), response.blob() ("pdfBlob") and the        *)
(* promise of downloadBlob ("saving"); "idle" when no call is in flight.     *)
(* attempt.timer is the setTimeout of DOWNLOAD_TIMEOUT, attempt.aborted the  *)
(* state of the AbortController's signal.  An endpoint that never answers is *)
(* an answer step that never happens.  The caller's catch / continuation in  *)
(* startDirectDownload (status update, updateDisplay) is part of the step    *)
(* that ends the call.                                                       *)

IdleAttempt ==
    [phase |-> "idle", invoiceData |-> 0, timer |-> "none", aborted |-> FALSE,
     outcome |-> "none"]

\* clearTimeout(timeoutId)
clearTimeout(timer) == IF timer = "pending" THEN "cleared" ELSE timer

\* The call throws: the catch of downloadPdfDirect, then the catch of the caller
attemptFails(error) ==
    /\ markAsFailed(allRows[attempt.invoiceData].invoiceId, error)
    /\ attempt' = [attempt EXCEPT !.phase = "idle", !.outcome = "failure",
                                  !.timer = clearTimeout(@)]

\* downloadPdfDirect(invoiceData) is called
downloadPdfDirect(r, hasDocument) ==
    /\ attempt.phase = "idle"
    /\ AttemptsOf(downloadStatus, allRows[r].invoiceId) < MaxAttempts
    /\ UNCHANGED <<tabVars, initVars, allRows, filterVars, runVars>>
    /\ IF hasDocument
       THEN /\ attempt' = [phase |-> "urlFetch", invoiceData |-> r, timer |-> "pending",
                           aborted |-> FALSE, outcome |-> "none"]
            /\ UNCHANGED <<storeVars, downloadDisabled>>
       ELSE /\ markAsFailed(allRows[r].invoiceId, "No document version ID or rarId found")
            /\ attempt' = [IdleAttempt EXCEPT !.invoiceData = r, !.outcome = "failure"]
            /\ updateDisplay

\* The POST to /tax/view-seller-fee-invoice-execute is answered
urlFetchAnswers(ok) ==
    /\ attempt.phase = "urlFetch"
    /\ UNCHANGED <<tabVars, initVars, allRows, filterVars, runVars>>
    /\ IF ok
       THEN /\ attempt' = [attempt EXCEPT !.phase = "urlJson"]
            /\ UNCHANGED <<storeVars, downloadDisabled>>
       ELSE /\ attemptFails("Failed to get PDF URL")
            /\ updateDisplay

\* response.json() of the POST settles; with a URL the PDF fetch is issued,
\* which rejects at once when the signal is already aborted
urlJsonAnswers(hasUrl) ==
    /\ attempt.phase = "urlJson"
    /\ UNCHANGED <<tabVars, initVars, allRows, filterVars, runVars>>
    /\ IF hasUrl /\ ~ attempt.aborted
       THEN /\ attempt' = [attempt EXCEPT !.phase = "pdfFetch"]
            /\ UNCHANGED <<storeVars, downloadDisabled>>
       ELSE /\ attemptFails(IF hasUrl THEN "Download timeout"
                                     ELSE "No PDF URL returned from Amazon")
            /\ updateDisplay

\* The fetch of the PDF is answered: clearTimeout, then the response.ok test
pdfFetchAnswers(ok) ==
    /\ attempt.phase = "pdfFetch"
    /\ UNCHANGED <<tabVars, initVars, allRows, filterVars, runVars>>
    /\ IF ok
       THEN /\ attempt' = [attempt EXCEPT !.phase = "pdfBlob", !.timer = clearTimeout(@)]
            /\ UNCHANGED <<storeVars, downloadDisabled>>
       ELSE /\ attemptFails("HTTP error")
            /\ updateDisplay

\* response.blob() settles: the size test, generateFilename, downloadBlob
pdfBlobAnswers(empty) ==
    /\ attempt.phase = "pdfBlob"
    /\ UNCHANGED <<tabVars, initVars, allRows, filterVars, runVars>>
    /\ IF empty
       THEN /\ attemptFails("Empty PDF received")
            /\ updateDisplay
       ELSE /\ attempt' = [attempt EXCEPT !.phase = "saving"]
            /\ UNCHANGED <<storeVars, downloadDisabled>>

\* The 100 ms timeout of downloadBlob resolves the call
savingDone ==
    /\ attempt.phase = "saving"
    /\ UNCHANGED <<tabVars, initVars, allRows, filterVars, runVars>>
    /\ markAsDownloaded(allRows[attempt.invoiceData].invoiceId)
    /\ attempt' = [attempt EXCEPT !.phase = "idle", !.outcome = "success"]
    /\ updateDisplay

\* The DOWNLOAD_TIMEOUT timer fires: abortController.abort().  Only the fetch of
\* the PDF was given the signal
timeoutFires ==
    /\ attempt.timer = "pending"
    /\ UNCHANGED <<tabVars, initVars, allRows, filterVars, runVars>>
    /\ IF attempt.phase = "pdfFetch"
       THEN /\ markAsFailed(allRows[attempt.invoiceData].invoiceId, "Download timeout")
            /\ attempt' = [attempt EXCEPT !.phase = "idle", !.outcome = "failure",
                                          !.timer = "fired", !.aborted = TRUE]
            /\ updateDisplay
       ELSE /\ attempt' = [attempt EXCEPT !.timer = "fired", !.aborted = TRUE]
            /\ UNCHANGED <<storeVars, downloadDisabled>>

----------------------------------------------------------------------------
(* Row parsing and initialization: parseRowData and initializeData.  A cell *)
(* is described by what the parser's tests make of its text: id is the      *)
(* invoice number the text is (0 when it does not match the invoice-number  *)
(* pattern), dateLike tells whether it matches datePattern, day is the day  *)
(* new Date(text).toISOString() gives (0 when the Date is invalid), and     *)
(* text holds the characters that belong to neither an invoice number nor a *)
(* date.  A row's index is its position in the table, counted from 1.       *)

IdCell(n) == [text |-> <<>>, id |-> n, dateLike |-> FALSE, day |-> 0]

DateCell(d) == [text |-> <<>>, id |-> 0, dateLike |-> TRUE, day |-> d]

TextCell(t) == [text |-> t, id |-> 0, dateLike |-> FALSE, day |-> 0]

\* A cell such as 'The Ltd 12 ...': it matches datePattern and is no date
DateLikeCell == DateCell(0)

extractInvoiceId(cells) ==
    IF \E k \in 1..Len(cells) : cells[k].id # 0
    THEN cells[CHOOSE k \in 1..Len(cells) :
                  /\ cells[k].id # 0
                  /\ \A j \in 1..(k - 1) : cells[j].id = 0].id
    ELSE 0

\* extractDate(cells, occurrence): Date.prototype.toISOString throws a
\* RangeError on an invalid Date, and nothing catches it
extractDate(cells, occurrence) ==
    LET matching == SelectSeq(cells, LAMBDA c : c.dateLike) IN
    IF Len(matching) > occurrence
    THEN [threw |-> matching[occurrence + 1].day = 0, value |-> matching[occurrence + 1].day]
    ELSE [threw |-> FALSE, value |-> 0]

\* row.textContent
RECURSIVE TextOf(_)
TextOf(cells) == IF cells = <<>> THEN <<>> ELSE Head(cells).text \o TextOf(Tail(cells))

\* parseRowData(row, index); the properties are evaluated in the order of the
\* object literal, so the first throw ends the call
parseRowData(cache, row, index) ==
    IF index \in DOMAIN cache
    THEN [threw |-> FALSE, data |-> cache[index]]
    ELSE IF extractDate(row, 0).threw \/ extractDate(row, 1).threw
    THEN [threw |-> TRUE, data |-> <<>>]
    ELSE [threw |-> FALSE,
          data |-> [index |-> index, invoiceId |-> extractInvoiceId(row),
                    startDate |-> extractDate(row, 0).value,
                    endDate |-> extractDate(row, 1).value,
                    textContent |-> toLowerCase(TextOf(row)), isSelected |-> FALSE]]

\* The data attributes extractButtonData reads, each under the key it is stored
\* at
DataAttributes ==
    [endDate |-> "data-enddate", fileType |-> "data-filetype",
     filterName |-> "data-filtername", invoice |-> "data-invoice",
     payeeRegistrationNumber |-> "data-payeeregistrationnumber",
     rarId |-> "data-rarid", shedDocumentName |-> "data-sheddocumentname"]

\* row.querySelector(...) found no button
NoButton == [present |-> FALSE, attributes |-> <<>>]

\* The buttons: each data attribute is absent or holds '' or a text
Buttons ==
    {[present |-> TRUE, attributes |-> a] :
        a \in [{DataAttributes[k] : k \in DOMAIN DataAttributes} ->
                  {[has |-> FALSE, value |-> ""], [has |-> TRUE, value |-> ""],
                   [has |-> TRUE, value |-> "x"]}]}

\* extractButtonData(button): Element.getAttribute gives null for an attribute
\* the element does not have
extractButtonData(button) ==
    LET getAttribute(name) ==
            IF button.attributes[name].has
            THEN [type |-> "string", value |-> button.attributes[name].value]
            ELSE [type |-> "null", value |-> ""]
    IN IF ~ button.present THEN <<>>
       ELSE [k \in DOMAIN DataAttributes |-> getAttribute(DataAttributes[k])]

\* `buttonData: this.extractButtonData(viewButton)` of parseRowData
readButtonData ==
    /\ ~ viewButton.extracted
    /\ viewButton' = [viewButton EXCEPT !.extracted = TRUE,
                                        !.buttonData = extractButtonData(viewButton.element)]
    /\ UNCHANGED <<tabVars, tableRows, isInitialized, rowDataCache, initState, attempt, allRows,
                   filterVars, storeVars, runVars, downloadDisabled>>

\* The rows of the table
MarketText(i) == IF i % 2 = 1 THEN <<"A", ".", "d", "e">> ELSE <<"A", ".", "p", "l">>

StandardRow(i) ==
    IF RowStartDate(i) = 0
    THEN <<IdCell(i), TextCell(MarketText(i))>>
    ELSE <<IdCell(i), DateCell(RowStartDate(i)), DateCell(RowEndDate(i)), TextCell(MarketText(i))>>

EmptyCellsRow == <<TextCell(<<>>), TextCell(<<>>)>>

BadStartRow(i) == <<IdCell(i), DateLikeCell, DateCell(RowEndDate(i)), TextCell(MarketText(i))>>

BadEndRow(i) == <<IdCell(i), DateCell(10 * i), DateLikeCell, TextCell(MarketText(i))>>

RowContents(i) == {StandardRow(i), EmptyCellsRow, BadStartRow(i), BadEndRow(i)}

\* chunkArray(array, size): the number of chunks and the positions of chunk c
ChunkCount(n) == (n + CHUNK_SIZE - 1) \div CHUNK_SIZE

ChunkRows(n, c) ==
    {p \in 1..n : (c - 1) * CHUNK_SIZE < p /\ p <= c * CHUNK_SIZE}

\* The callback of chrome.storage.local.get in loadDownloadStatus
loadDownloadStatus ==
    /\ downloadedInvoices' = LoadedIds(stored, downloadedInvoices)
    /\ downloadStatus' = LoadedStatus(stored, downloadStatus)
    /\ UNCHANGED <<stored, failuresRecorded, successRecorded, clearedHistory>>

\* The page is loaded again: the constructor's empty set and map, then the
\* callback of loadDownloadStatus
reload ==
    /\ downloadedInvoices' = LoadedIds(stored, {})
    /\ downloadStatus' = LoadedStatus(stored, [id \in DOMAIN downloadStatus |-> NoEntry])
    /\ UNCHANGED <<stored, failuresRecorded, successRecorded, clearedHistory>>
    /\ UNCHANGED <<tabVars, initVars, attempt, allRows, filterVars, runVars, downloadDisabled>>

\* The end of initializeData and the rest of init(): the view is the whole
\* table, the toolbar and its listeners are set up, updateDisplay
initCompletes ==
    /\ filteredRows' = RowIndexes(allRows)
    /\ isInitialized' = TRUE
    /\ initState' = [initState EXCEPT !.pc = "done"]
    /\ UNCHANGED <<allRows, rowDataCache>>
    /\ updateDisplay

\* Faulty variant: the rows are parsed under their index within the chunk.
processChunk_LocalIndex(c) ==
    LET chunk    == ChunkRows(Len(tableRows), c)
        local(p) == p - (c - 1) * CHUNK_SIZE
        Threw(p) == parseRowData(rowDataCache, tableRows[p], local(p)).threw
        pushed   == {p \in chunk : \A q \in chunk : q <= p => ~ Threw(q)}
        parsed   == [p \in 1..(Len(allRows) + Cardinality(pushed)) |->
                        IF p <= Len(allRows) THEN allRows[p]
                        ELSE parseRowData(rowDataCache, tableRows[p], local(p)).data]
    IN /\ allRows' = parsed
       /\ rowDataCache' = IF c = 1 THEN parsed ELSE rowDataCache
       /\ initState' = [pc |-> IF pushed = chunk THEN "sleeping" ELSE "failed", chunk |-> c]
       /\ UNCHANGED <<filteredRows, isInitialized, downloadDisabled>>

\* processChunk of chunk c: the rows are parsed and pushed in order; a throw of
\* parseRowData rejects processChunk, initializeData and init()
processChunk(c) ==
    LET chunk    == ChunkRows(Len(tableRows), c)
        Threw(p) == parseRowData(rowDataCache, tableRows[p], p).threw
        pushed   == {p \in chunk : \A q \in chunk : q <= p => ~ Threw(q)}
        parsed   == [p \in 1..(Len(allRows) + Cardinality(pushed)) |->
                        IF p <= Len(allRows) THEN allRows[p]
                        ELSE parseRowData(rowDataCache, tableRows[p], p).data]
    IN /\ allRows' = parsed
       /\ rowDataCache' = parsed
       /\ initState' = [pc |-> IF pushed = chunk THEN "sleeping" ELSE "failed", chunk |-> c]
       /\ UNCHANGED <<filteredRows, isInitialized, downloadDisabled>>

\* The for loop of initializeData at chunk c
nextChunk(c) ==
    IF c <= ChunkCount(Len(tableRows)) THEN processChunk(c) ELSE initCompletes

\* The storage read of initializeData settles, the first chunk follows
loadSettles ==
    /\ initState.pc = "loading"
    /\ loadDownloadStatus
    /\ UNCHANGED <<tabVars, tableRows, viewButton, attempt, filterCache, currentFilters, debounceTimer, lastApplied, runVars>>
    /\ nextChunk(1)

\* `await sleep(0)` after a chunk ends
initSleepEnds ==
    /\ initState.pc = "sleeping"
    /\ UNCHANGED <<tabVars, tableRows, viewButton, attempt, filterCache, currentFilters, debounceTimer, lastApplied,
                   storeVars, runVars>>
    /\ nextChunk(initState.chunk + 1)

----------------------------------------------------------------------------
(* The tab-based downloader: content.js clicks the View button of each       *)
(* selected row and background.js saves the PDF of the tab the click opens.  *)
(* The table is the standard table; all rows are displayed (the filters of   *)
(* content.js only hide rows) and every row has a View button.  A tab is     *)
(* described by the invoice whose View click opened it, its URL ("blank"     *)
(* until the PDF URL is loaded), its tabs.onCreated and tabs.onUpdated       *)
(* events ("queued" until the listener has run), the 500 ms check of the     *)
(* onCreated listener, and whether it is open.                               *)

MaxTabs == 2        \* View clicks made in one behaviour

\* sender.tab.id and tab.openerTabId: the invoice page; 0 is null
PageTab == 1

Unknown == <<"u", "n", "k", "n", "o", "w", "n">>

\* extractMarketplace(row): 'Amazon.' is written "A." in the table's texts
extractMarketplace(cells) ==
    LET starts(c) == Len(c.text) >= 2 /\ SubSeq(c.text, 1, 2) = <<"A", ".">> IN
    IF \E k \in 1..Len(cells) : starts(cells[k])
    THEN LET k == CHOOSE k \in 1..Len(cells) :
                     starts(cells[k]) /\ \A j \in 1..(k - 1) : ~ starts(cells[j])
         IN toLowerCase(SubSeq(cells[k].text, 3, Len(cells[k].text)))
    ELSE Unknown

\* row.dataset of row r, as enhanceTable sets it
DatasetOf(r) ==
    [invoiceId |-> extractInvoiceId(StandardRow(r)),
     startDate |-> extractDate(StandardRow(r), 0).value,
     endDate |-> extractDate(StandardRow(r), 1).value]

NoInfo == [present |-> FALSE, invoiceId |-> 0, endDate |-> 0, marketplace |-> <<>>]

\* The expect_download message startBulkDownload sends for row r
ExpectDownload(r) ==
    [present |-> TRUE, invoiceId |-> DatasetOf(r).invoiceId, endDate |-> DatasetOf(r).endDate,
     marketplace |-> extractMarketplace(StandardRow(r))]

\* generateFilename(info) of background.js: `${date}_${invoiceId}_${marketplace}.pdf`;
\* an invoice number holds no character the replace() rewrites
generateFilename(info) ==
    [unknownDate |-> info.endDate = 0, date |-> info.endDate, invoiceId |-> info.invoiceId,
     marketplace |-> IF info.marketplace = <<>> THEN Unknown ELSE info.marketplace]

NewTab(r) ==
    [invoice |-> r, url |-> "blank", created |-> "queued", check |-> "none",
     updated |-> "none", open |-> "open"]

IdleBulk ==
    [pc |-> "idle", i |-> 0, selectedCheckboxes |-> <<>>, cancelled |-> FALSE,
     current |-> 0, handler |-> FALSE]

\* markDownloadedInvoices()
markDownloadedInvoices(rows, dl) ==
    [r \in DOMAIN rows |->
        [rows[r] EXCEPT !.status = IF DatasetOf(r).invoiceId \in dl THEN "Downloaded"
                                   ELSE "Pending"]]

\* updateSelectedCount(): the disabled property of #amz-download-selected
NoneChecked(rows) == \A r \in DOMAIN rows : ~ rows[r].checked

\* init() of content.js: the storage read is issued, then the toolbar, the
\* checkbox and status columns and markDownloadedInvoices, all in one task
csInit ==
    /\ csState = "loading"
    /\ csState' = "ready"
    /\ csGet' = "pending"
    /\ csRows' = markDownloadedInvoices([r \in Rows |-> [checked |-> FALSE, status |-> ""]],
                                        csDownloadedInvoices)
    /\ UNCHANGED <<pageVars, csDownloadedInvoices, csStored, csButtonDisabled, csIsDownloading,
                   bulk, csAlert, backgroundVars>>

\* The callback of chrome.storage.local.get in loadDownloadedInvoices
csGetSettles ==
    /\ csGet = "pending"
    /\ csGet' = "done"
    /\ csDownloadedInvoices' = IF csStored.present THEN SetOf(csStored.ids)
                                ELSE csDownloadedInvoices
    /\ UNCHANGED <<pageVars, csState, csStored, csRows, csButtonDisabled, csIsDownloading,
                   bulk, csAlert, backgroundVars>>

\* change on the checkbox of row r: updateSelectedCount
csRowCheckbox(r) ==
    /\ csState = "ready"
    /\ csRows' = [csRows EXCEPT ![r].checked = ~ @]
    /\ csButtonDisabled' = NoneChecked(csRows')
    /\ UNCHANGED <<pageVars, csState, csGet, csDownloadedInvoices, csStored, csIsDownloading,
                   bulk, csAlert, backgroundVars>>

\* change on #amz-select-all: toggleAllVisible(checked)
toggleAllVisible(checked) ==
    /\ csState = "ready"
    /\ csRows' = [r \in DOMAIN csRows |-> [csRows[r] EXCEPT !.checked = checked]]
    /\ csButtonDisabled' = NoneChecked(csRows')
    /\ UNCHANGED <<pageVars, csState, csGet, csDownloadedInvoices, csStored, csIsDownloading,
                   bulk, csAlert, backgroundVars>>

\* click on #amz-clear-history, confirmed
csClearHistory ==
    /\ csState = "ready"
    /\ csDownloadedInvoices' = {}
    /\ csStored' = [present |-> FALSE, ids |-> <<>>]
    /\ csRows' = markDownloadedInvoices(csRows, {})
    /\ UNCHANGED <<pageVars, csState, csGet, csButtonDisabled, csIsDownloading, bulk, csAlert,
                   backgroundVars>>

\* The checked checkboxes of displayed rows, in document order
CheckedRows(rows) == SelectSeq([r \in 1..Len(rows) |-> r], LAMBDA r : rows[r].checked)

\* chrome.runtime.sendMessage({action: 'expect_download', ...}) and
\* viewButton.click() for row r: the page opens a tab
ViewClick(r) ==
    /\ messages' = Append(messages, ExpectDownload(r))
    /\ tabs' = Append(tabs, NewTab(r))
    /\ UNCHANGED <<isMonitoring, currentDownloadInfo, monitoringTabId, downloads>>

\* click on #amz-download-selected: startBulkDownload up to its first await
startBulkDownload ==
    /\ csState = "ready"
    /\ ~ csButtonDisabled
    /\ Len(tabs) + Len(CheckedRows(csRows)) <= MaxTabs
    /\ UNCHANGED <<pageVars, csState, csGet, csDownloadedInvoices, csStored, csRows>>
    /\ IF csIsDownloading
       THEN UNCHANGED <<csButtonDisabled, csIsDownloading, bulk, csAlert, backgroundVars>>
       ELSE IF CheckedRows(csRows) = <<>>
       THEN /\ csAlert' = [kind |-> "select", a |-> 0, b |-> 0]
            /\ UNCHANGED <<csButtonDisabled, csIsDownloading, bulk, backgroundVars>>
       ELSE /\ csIsDownloading' = TRUE
            /\ csButtonDisabled' = TRUE
            /\ bulk' = [pc |-> "sleeping", i |-> 0,
                        selectedCheckboxes |-> CheckedRows(csRows), cancelled |-> FALSE,
                        current |-> 1, handler |-> TRUE]
            /\ ViewClick(CheckedRows(csRows)[1])
            /\ UNCHANGED csAlert

\* Faulty variant: the loop test does not read the cancelled flag.
LoopContinues_IgnoreCancel(b) ==
    b.i < Len(b.selectedCheckboxes)

\* The loop test of startBulkDownload: `i < selectedCheckboxes.length && !cancelled`
LoopContinues(b) ==
    b.i < Len(b.selectedCheckboxes) /\ ~ b.cancelled

\* `await sleep(DELAY_BETWEEN_DOWNLOADS)` ends: saveDownloadedInvoice, the status
\* cell, the checkbox, then the next iteration up to its sleep or the cleanup
bulkSleepEnds ==
    /\ bulk.pc = "sleeping"
    /\ LET r     == bulk.selectedCheckboxes[bulk.i + 1]
           total == Len(bulk.selectedCheckboxes)
           rows  == [csRows EXCEPT ![r] = [checked |-> FALSE, status |-> "Downloaded"]]
       IN /\ csDownloadedInvoices' = csDownloadedInvoices \cup {DatasetOf(r).invoiceId}
          /\ csStored' = [present |-> TRUE, ids |-> ArrayFrom(csDownloadedInvoices')]
          /\ csRows' = rows
          /\ IF LoopContinues([bulk EXCEPT !.i = @ + 1])
             THEN /\ bulk' = [bulk EXCEPT !.i = @ + 1, !.current = bulk.i + 2]
                  /\ ViewClick(bulk.selectedCheckboxes[bulk.i + 2])
                  /\ UNCHANGED <<csButtonDisabled, csIsDownloading, csAlert>>
             ELSE /\ bulk' = [bulk EXCEPT !.pc = "idle", !.i = @ + 1]
                  /\ csIsDownloading' = FALSE
                  /\ csButtonDisabled' = NoneChecked(rows)
                  /\ csAlert' = IF bulk.cancelled
                                THEN [kind |-> "cancelled", a |-> bulk.current, b |-> total]
                                ELSE [kind |-> "processed", a |-> total, b |-> total]
                  /\ UNCHANGED backgroundVars
    /\ UNCHANGED <<pageVars, csState, csGet>>

\* click on #amz-cancel-download while the progress container is displayed:
\* the cancelHandler of the run, which then removes itself
csCancelClick ==
    /\ csIsDownloading
    /\ bulk.handler
    /\ bulk' = [bulk EXCEPT !.cancelled = TRUE, !.handler = FALSE]
    /\ UNCHANGED <<pageVars, csState, csGet, csDownloadedInvoices, csStored, csRows,
                   csButtonDisabled, csIsDownloading, csAlert, backgroundVars>>

\* chrome.runtime.onMessage: the oldest expect_download message is delivered
expectDownload ==
    /\ messages # <<>>
    /\ isMonitoring' = TRUE
    /\ monitoringTabId' = PageTab
    /\ currentDownloadInfo' = Head(messages)
    /\ messages' = Tail(messages)
    /\ UNCHANGED <<pageVars, contentVars, tabs, downloads>>

\* Faulty variant: the monitoring state is not reset after the download.
handlePdfTab_KeepInfo(t, changes, started) ==
    IF ~ currentDownloadInfo.present
    THEN /\ tabs' = [tabs EXCEPT ![t] = changes]
         /\ UNCHANGED <<isMonitoring, currentDownloadInfo, downloads>>
    ELSE /\ downloads' = Append(downloads,
                                [filename |-> generateFilename(currentDownloadInfo),
                                 tab |-> t, started |-> started])
         /\ tabs' = [tabs EXCEPT ![t] =
                        [changes EXCEPT !.open = IF started /\ @ = "open" THEN "closing"
                                                 ELSE @]]
         /\ UNCHANGED <<isMonitoring, currentDownloadInfo>>

\* handlePdfTab(tab) for tab t; changes is what the caller does to the tab
\* record, started tells whether chrome.downloads.download reported no error
handlePdfTab(t, changes, started) ==
    IF ~ currentDownloadInfo.present
    THEN /\ tabs' = [tabs EXCEPT ![t] = changes]
         /\ UNCHANGED <<isMonitoring, currentDownloadInfo, downloads>>
    ELSE /\ downloads' = Append(downloads,
                                [filename |-> generateFilename(currentDownloadInfo),
                                 tab |-> t, started |-> started])
         /\ tabs' = [tabs EXCEPT ![t] =
                        [changes EXCEPT !.open = IF started /\ @ = "open" THEN "closing"
                                                 ELSE @]]
         /\ isMonitoring' = FALSE
         /\ currentDownloadInfo' = NoInfo

\* chrome.tabs.onCreated for tab t
tabCreated(t) ==
    /\ t \in 1..Len(tabs)
    /\ tabs[t].created = "queued"
    /\ tabs' = [tabs EXCEPT ![t] =
                   [@ EXCEPT !.created = "delivered",
                             !.check = IF isMonitoring /\ PageTab = monitoringTabId
                                       THEN "pending" ELSE @]]
    /\ UNCHANGED <<pageVars, contentVars, messages, isMonitoring, currentDownloadInfo,
                   monitoringTabId, downloads>>

\* The 500 ms timeout of the onCreated listener and its chrome.tabs.get
delayedCheck(t, started) ==
    /\ t \in 1..Len(tabs)
    /\ tabs[t].check = "pending"
    /\ UNCHANGED <<pageVars, contentVars, messages, monitoringTabId>>
    /\ IF tabs[t].open # "closed" /\ tabs[t].url = "pdf"
       THEN handlePdfTab(t, [tabs[t] EXCEPT !.check = "done"], started)
       ELSE /\ tabs' = [tabs EXCEPT ![t].check = "done"]
            /\ UNCHANGED <<isMonitoring, currentDownloadInfo, downloads>>

\* The tab loads the PDF: its URL changes and a tabs.onUpdated event is queued
tabLoadsPdf(t) ==
    /\ t \in 1..Len(tabs)
    /\ tabs[t].open # "closed"
    /\ tabs[t].url = "blank"
    /\ tabs' = [tabs EXCEPT ![t] = [@ EXCEPT !.url = "pdf", !.updated = "queued"]]
    /\ UNCHANGED <<pageVars, contentVars, messages, isMonitoring, currentDownloadInfo,
                   monitoringTabId, downloads>>

\* chrome.tabs.onUpdated for the URL change of tab t
tabUpdated(t, started) ==
    /\ t \in 1..Len(tabs)
    /\ tabs[t].updated = "queued"
    /\ UNCHANGED <<pageVars, contentVars, messages, monitoringTabId>>
    /\ IF ~ isMonitoring
       THEN /\ tabs' = [tabs EXCEPT ![t].updated = "delivered"]
            /\ UNCHANGED <<isMonitoring, currentDownloadInfo, downloads>>
       ELSE handlePdfTab(t, [tabs[t] EXCEPT !.updated = "delivered"], started)

\* The 1 s timeout of the download callback: chrome.tabs.remove
tabRemove(t) ==
    /\ t \in 1..Len(tabs)
    /\ tabs[t].open = "closing"
    /\ tabs' = [tabs EXCEPT ![t].open = "closed"]
    /\ UNCHANGED <<pageVars, contentVars, messages, isMonitoring, currentDownloadInfo,
                   monitoringTabId, downloads>>

\* Neither script has run: content.js before init(), background.js just loaded
ScriptsLoaded(history) ==
    /\ csState = "loading"
    /\ csGet = "none"
    /\ csDownloadedInvoices = {}
    /\ csStored = history
    /\ csRows = <<>>
    /\ csButtonDisabled = TRUE
    /\ csIsDownloading = FALSE
    /\ bulk = IdleBulk
    /\ csAlert = [kind |-> "none", a |-> 0, b |-> 0]
    /\ messages = <<>>
    /\ isMonitoring = FALSE
    /\ currentDownloadInfo = NoInfo
    /\ monitoringTabId = 0
    /\ tabs = <<>>
    /\ downloads = <<>>

----------------------------------------------------------------------------
(* Specifications *)

EmptyStore(ids) ==
    /\ downloadedInvoices = {}
    /\ downloadStatus = [id \in ids |-> NoEntry]
    /\ stored = NothingStored
    /\ failuresRecorded = [id \in ids |-> 0]
    /\ successRecorded = {}
    /\ clearedHistory = FALSE

\* The state after init(): the rows parsed, the view unfiltered, nothing
\* selected, no run
PageAfterInit(table, rows) ==
    /\ viewButton = [element |-> NoButton, extracted |-> FALSE, buttonData |-> <<>>]
    /\ tableRows = table
    /\ isInitialized = TRUE
    /\ rowDataCache = rows
    /\ initState = [pc |-> "done", chunk |-> ChunkCount(Len(table))]
    /\ attempt = IdleAttempt
    /\ allRows = rows
    /\ filteredRows = RowIndexes(allRows)
    /\ filterCache = <<>>
    /\ currentFilters = NoFilters
    /\ debounceTimer = FALSE
    /\ lastApplied = [key |-> <<>>, repeated |-> FALSE]
    /\ isDownloading = FALSE
    /\ downloadQueue = <<>>
    /\ currentDownloadIndex = 0
    /\ progressVisible = FALSE
    /\ downloadDisabled = TRUE
    /\ loops = <<>>
    /\ lastAlert = [kind |-> "none", a |-> 0, b |-> 0]

StandardPage == PageAfterInit([i \in Rows |-> StandardRow(i)], [i \in Rows |-> RowData(i)])

InitPage == StandardPage /\ ScriptsLoaded([present |-> FALSE, ids |-> <<>>])

Init == InitPage /\ EmptyStore(Ids)

\* The download runs, with the selection and history buttons
Next ==
    \/ \E selected \in BOOLEAN : selectAllVisible(selected)
    \/ \E status \in {"pending", "failed"} : selectByStatus(status, TRUE)
    \/ clearHistoryClick
    \/ startRejected
    \/ startNothingSelected
    \/ startDirectDownload
    \/ \E k \in 1..Len(loops) : retrievalSettles(k, TRUE, "")
    \/ \E k \in 1..Len(loops), error \in Errors : retrievalSettles(k, FALSE, error)
    \/ \E k \in 1..Len(loops) : sleepEnds(k)
    \/ cancelDownload

Spec == Init /\ [][Next]_vars

\* The download runs on a table whose rows, except the last, have no cell that
\* is an invoice number
NoIdRow(i) == Tail(StandardRow(i))

UnmatchedTable == [i \in Rows |-> IF i = NumRows THEN StandardRow(i) ELSE NoIdRow(i)]

InitUnmatched ==
    /\ PageAfterInit(UnmatchedTable,
                     [i \in Rows |-> parseRowData(<<>>, UnmatchedTable[i], i).data])
    /\ ScriptsLoaded([present |-> FALSE, ids |-> <<>>])
    /\ EmptyStore(Ids)

SpecUnmatched == InitUnmatched /\ [][Next]_vars

\* The download runs on a page loaded with a saved history in which every
\* invoice but the last of the table is downloaded
SavedEntries(ids) ==
    [id \in Ids |-> IF id \in ids THEN DownloadedEntry([j \in Ids |-> NoEntry], id) ELSE NoEntry]

LoadedStore(ids) ==
    /\ downloadedInvoices = ids
    /\ downloadStatus = SavedEntries(ids)
    /\ stored = StoredImage(ids, SavedEntries(ids))
    /\ failuresRecorded = [id \in Ids |-> 0]
    /\ successRecorded = ids
    /\ clearedHistory = FALSE

InitResumed == InitPage /\ LoadedStore(1..(NumRows - 1))

SpecResumed == InitResumed /\ [][Next]_vars

\* One retrieval at a time, of the rows with the ids 1..MaxStoreId, with
\* endpoints that answer in any way or not at all; no Cancel click
InitRetrieval == InitPage /\ EmptyStore(Ids)

NextRetrieval ==
    \/ \E r \in Rows, hasDocument \in BOOLEAN :
          /\ allRows[r].invoiceId \in 1..MaxStoreId
          /\ downloadPdfDirect(r, hasDocument)
    \/ \E ok \in BOOLEAN : urlFetchAnswers(ok)
    \/ \E hasUrl \in BOOLEAN : urlJsonAnswers(hasUrl)
    \/ \E ok \in BOOLEAN : pdfFetchAnswers(ok)
    \/ \E empty \in BOOLEAN : pdfBlobAnswers(empty)
    \/ savingDone
    \/ timeoutFires

SpecRetrieval == InitRetrieval /\ [][NextRetrieval]_vars

\* content.js alone, on a page whose saved history holds invoice 1: the
\* messages it sends and the tabs it opens are left alone
InitContent ==
    StandardPage /\ EmptyStore(Ids) /\ ScriptsLoaded([present |-> TRUE, ids |-> <<1>>])

NextContent ==
    \/ csInit
    \/ csGetSettles
    \/ \E r \in Rows : csRowCheckbox(r)
    \/ \E checked \in BOOLEAN : toggleAllVisible(checked)
    \/ csClearHistory
    \/ startBulkDownload
    \/ bulkSleepEnds
    \/ csCancelClick

SpecContent == InitContent /\ [][NextContent]_vars

\* Both scripts: bulk downloads of the first MaxTabs rows, the rows chosen
\* between the runs, with the events of the opened tabs in any order
InitTabs == InitPage /\ EmptyStore(Ids)

NextTabs ==
    \/ csInit
    \/ csGetSettles
    \/ \E r \in 1..MaxTabs : ~ csIsDownloading /\ csRowCheckbox(r)
    \/ startBulkDownload
    \/ bulkSleepEnds
    \/ expectDownload
    \/ \E t \in 1..Len(tabs) : tabCreated(t)
    \/ \E t \in 1..Len(tabs), started \in BOOLEAN : delayedCheck(t, started)
    \/ \E t \in 1..Len(tabs) : tabLoadsPdf(t)
    \/ \E t \in 1..Len(tabs), started \in BOOLEAN : tabUpdated(t, started)
    \/ \E t \in 1..Len(tabs) : tabRemove(t)

SpecTabs == InitTabs /\ [][NextTabs]_vars

\* extractButtonData alone, on a row with any of the buttons or none
InitButton ==
    /\ tableRows = <<>>
    /\ isInitialized = FALSE
    /\ rowDataCache = <<>>
    /\ initState = [pc |-> "loading", chunk |-> 0]
    /\ viewButton \in {[element |-> e, extracted |-> FALSE, buttonData |-> <<>>] :
                          e \in Buttons \cup {NoButton}}
    /\ attempt = IdleAttempt
    /\ ScriptsLoaded([present |-> FALSE, ids |-> <<>>])
    /\ allRows = <<>>
    /\ filteredRows = <<>>
    /\ filterCache = <<>>
    /\ currentFilters = NoFilters
    /\ debounceTimer = FALSE
    /\ lastApplied = [key |-> <<>>, repeated |-> FALSE]
    /\ isDownloading = FALSE
    /\ downloadQueue = <<>>
    /\ currentDownloadIndex = 0
    /\ progressVisible = FALSE
    /\ downloadDisabled = TRUE
    /\ loops = <<>>
    /\ lastAlert = [kind |-> "none", a |-> 0, b |-> 0]
    /\ EmptyStore(Ids)

SpecButton == InitButton /\ [][readButtonData]_vars

\* The status store alone: its three operations on the ids 0..MaxStoreId
StoreIds == 0..MaxStoreId

recordSuccess(id) ==
    /\ AttemptsOf(downloadStatus, id) < MaxAttempts
    /\ markAsDownloaded(id)
    /\ UNCHANGED <<tabVars, initVars, attempt, allRows, filterVars, runVars, downloadDisabled>>

recordFailure(id, error) ==
    /\ AttemptsOf(downloadStatus, id) < MaxAttempts
    /\ markAsFailed(id, error)
    /\ UNCHANGED <<tabVars, initVars, attempt, allRows, filterVars, runVars, downloadDisabled>>

clear ==
    /\ clearDownloadHistory
    /\ UNCHANGED <<tabVars, initVars, attempt, allRows, filterVars, runVars, downloadDisabled>>

InitStore == InitPage /\ EmptyStore(StoreIds)

NextStore ==
    \/ \E id \in StoreIds : recordSuccess(id)
    \/ \E id \in StoreIds, error \in Errors : recordFailure(id, error)
    \/ clear
    \/ reload

SpecStore == InitStore /\ [][NextStore]_vars

\* The filter cache alone: the dateFrom input is stepped a day at a time, each
\* change made after the previous change's timeout has fired, with Clear Filters
\* at any time
DayInputs == 0..MaxDay

InitCache == InitPage /\ EmptyStore(Ids)

NextCache ==
    \/ /\ ~ debounceTimer
       /\ \E d \in {currentFilters.dateFrom - 1, currentFilters.dateFrom + 1} \cap DayInputs :
             updateFilter("dateFrom", d)
    \/ debounceFire
    \/ clearFilters

SpecCache == InitCache /\ [][NextCache]_vars

\* Status filtering: the status select (a change event carries a new value), the
\* debounce timeout and Clear Filters, with the status store's operations on the
\* ids 1..MaxStoreId
StatusInputs == {"", "pending", "downloaded", "failed"}

FilterStoreIds == 1..MaxStoreId

InitFilter == InitPage /\ EmptyStore(Ids)

NextFilter ==
    \/ \E status \in StatusInputs \ {currentFilters.status} : updateFilter("status", status)
    \/ debounceFire
    \/ clearFilters
    \/ \E id \in FilterStoreIds : recordSuccess(id)
    \/ \E id \in FilterStoreIds, error \in Errors : recordFailure(id, error)
    \/ clear

SpecFilter == InitFilter /\ [][NextFilter]_vars

\* The filter inputs: every input of the toolbar (an input or change event carries
\* a new value), the quick filter, the debounce timeout and Clear Filters, with
\* downloads of the rows that have no dates; filter values not yet in the cache
\* are applied until it holds MaxCached keys
MarketplaceInputs == {<<>>, <<"D", "E">>}

DateFromInputs == {0, 15, 16}

DateToInputs == {0, 19, 20}

ApplyStatusInputs == {"", "downloaded"}

ApplyStoreIds ==
    {allRows[i].invoiceId :
        i \in {j \in 1..Len(allRows) : allRows[j].startDate = 0 /\ allRows[j].endDate = 0}}

CanApply(filters) ==
    CacheHas(filterCache, cacheKey(filters)) \/ Len(filterCache) < MaxCached

InitApply == InitPage /\ EmptyStore(Ids)

NextApply ==
    \/ \E value \in MarketplaceInputs \ {currentFilters.marketplace} :
          updateFilter("marketplace", value)
    \/ \E value \in DateFromInputs \ {currentFilters.dateFrom} : updateFilter("dateFrom", value)
    \/ \E value \in DateToInputs \ {currentFilters.dateTo} : updateFilter("dateTo", value)
    \/ \E value \in ApplyStatusInputs \ {currentFilters.status} : updateFilter("status", value)
    \/ \E from \in DateFromInputs \ {0}, to \in DateToInputs \ {0} : quick6Months(from, to)
    \/ CanApply(currentFilters) /\ debounceFire
    \/ CanApply(NoFilters) /\ clearFilters
    \/ \E id \in ApplyStoreIds \ downloadedInvoices : recordSuccess(id)

SpecApply == InitApply /\ [][NextApply]_vars

\* Selection and download runs on a view narrowed by the marketplace filter
InitView == InitPage /\ EmptyStore(Ids)

NextView ==
    \/ \E value \in MarketplaceInputs \ {currentFilters.marketplace} :
          updateFilter("marketplace", value)
    \/ debounceFire
    \/ clearFilters
    \/ \E selected \in BOOLEAN : selectAllVisible(selected)
    \/ selectByStatus("pending", TRUE)
    \/ startDirectDownload
    \/ \E k \in 1..Len(loops) : retrievalSettles(k, TRUE, "")
    \/ \E k \in 1..Len(loops) : sleepEnds(k)
    \/ cancelDownload

SpecView == InitView /\ [][NextView]_vars

\* The filter inputs without a limit on the cache: the marketplace input and the
\* status select, the debounce timeout, Clear Filters and downloads of the rows
\* that have no dates
InitDebounce == InitPage /\ EmptyStore(Ids)

NextDebounce ==
    \/ \E value \in MarketplaceInputs \ {currentFilters.marketplace} :
          updateFilter("marketplace", value)
    \/ \E value \in ApplyStatusInputs \ {currentFilters.status} : updateFilter("status", value)
    \/ debounceFire
    \/ clearFilters
    \/ \E id \in ApplyStoreIds \ downloadedInvoices : recordSuccess(id)

SpecDebounce == InitDebounce /\ [][NextDebounce]_vars

\* The selection controls on a view narrowed by the marketplace filter, with
\* status updates of the first two rows (one inside the narrowed view, one
\* outside)
SelectStoreIds == {allRows[1].invoiceId, allRows[2].invoiceId}

InitSelect == InitPage /\ EmptyStore(Ids)

NextSelect ==
    \/ \E value \in MarketplaceInputs \ {currentFilters.marketplace} :
          updateFilter("marketplace", value)
    \/ debounceFire
    \/ clearFilters
    \/ \E selected \in BOOLEAN : selectAllVisible(selected)
    \/ \E status \in {"pending", "failed"} : selectByStatus(status, TRUE)
    \/ \E id \in SelectStoreIds \ downloadedInvoices : recordSuccess(id)
    \/ \E id \in SelectStoreIds : recordFailure(id, "Download timeout")

SpecSelect == InitSelect /\ [][NextSelect]_vars

\* Initialization: init() on a table of up to NumRows rows of any content, or of
\* CHUNK_SIZE or CHUNK_SIZE + 1 rows of which at most one is malformed, with or
\* without a saved history
TablesOf(n) ==
    {t \in [1..n -> UNION {RowContents(i) : i \in 1..n}] : \A i \in 1..n : t[i] \in RowContents(i)}

LongTable(n, bad) == [i \in 1..n |-> IF i = bad THEN BadStartRow(i) ELSE StandardRow(i)]

Tables ==
    UNION {TablesOf(n) : n \in 0..NumRows}
        \cup {LongTable(n, bad) : n \in {CHUNK_SIZE, CHUNK_SIZE + 1},
                                    bad \in {0, 1, CHUNK_SIZE + 1}}

SavedHistories ==
    {NothingStored,
     StoredImage({1}, [id \in Ids |-> IF id = 1 THEN DownloadedEntry([j \in Ids |-> NoEntry], 1)
                                       ELSE NoEntry])}

InitInit ==
    /\ tableRows \in Tables
    /\ isInitialized = FALSE
    /\ rowDataCache = <<>>
    /\ initState = [pc |-> "loading", chunk |-> 0]
    /\ viewButton = [element |-> NoButton, extracted |-> FALSE, buttonData |-> <<>>]
    /\ attempt = IdleAttempt
    /\ ScriptsLoaded([present |-> FALSE, ids |-> <<>>])
    /\ allRows = <<>>
    /\ filteredRows = <<>>
    /\ filterCache = <<>>
    /\ currentFilters = NoFilters
    /\ debounceTimer = FALSE
    /\ lastApplied = [key |-> <<>>, repeated |-> FALSE]
    /\ isDownloading = FALSE
    /\ downloadQueue = <<>>
    /\ currentDownloadIndex = 0
    /\ progressVisible = FALSE
    /\ downloadDisabled = TRUE
    /\ loops = <<>>
    /\ lastAlert = [kind |-> "none", a |-> 0, b |-> 0]
    /\ downloadedInvoices = {}
    /\ downloadStatus = [id \in Ids |-> NoEntry]
    /\ stored \in SavedHistories
    /\ failuresRecorded = [id \in Ids |-> 0]
    /\ successRecorded = {}
    /\ clearedHistory = FALSE

NextInit ==
    \/ loadSettles
    \/ initSleepEnds

SpecInit == InitInit /\ [][NextInit]_vars

----------------------------------------------------------------------------
(* Claims about the download runs (specification Spec) *)

LoopIds == 1..Len(loops)

Processed(l) == l.successCount + l.failureCount

SumOver(f, S) ==
    LET RECURSIVE Sum(_)
        Sum(T) == IF T = {} THEN 0
                  ELSE LET x == CHOOSE y \in T : TRUE IN f[x] + Sum(T \ {x})
    IN Sum(S)

\* C1: at most one download loop is between its start and its end at any time;
\* a start request made while a loop has not yet stopped starts no second loop.
C1_OneLoopAtATime ==
    Cardinality({k \in LoopIds : Active(loops[k])}) <= 1

\* C33: the isDownloading flag is false if and only if no loop is suspended
\* at a retrieval or at an inter-item delay, in every reachable state.
C33_FlagTracksLoop ==
    ~ isDownloading <=> ~ \E k \in LoopIds : Active(loops[k])

\* C2: at most one retrieval is in flight at any moment, and within a run a
\* retrieval starts only when every earlier one of that run has had its status
\* update.
C2_SequentialRetrievals ==
    /\ Cardinality({k \in LoopIds : loops[k].pc = "retrieving"}) <= 1
    /\ \A k \in LoopIds :
          SumOver(loops[k].started, Rows) =
              SumOver(loops[k].updated, Rows)
                  + (IF loops[k].pc = "retrieving" THEN 1 ELSE 0)

\* C3: in every run, each item whose retrieval was started gets exactly one
\* status update by that run (once the retrieval has settled), and an item the
\* run had not started when the cancel request came gets none from it.
C3_ExactlyOneUpdate ==
    \A k \in LoopIds :
        /\ \A r \in Rows :
              (loops[k].started[r] > 0
                  /\ ~ (loops[k].pc = "retrieving" /\ loops[k].invoiceData = r))
              => loops[k].updated[r] = 1
        /\ \A r \in loops[k].skipped : loops[k].updated[r] = 0

\* C4: a run during which no cancel request was made attempts every item of its
\* selection, and at its completion successCount + failureCount is the size of
\* the selection.
C4_FailureNeverStopsBatch ==
    \A k \in LoopIds :
        (loops[k].pc = "done" /\ ~ loops[k].cancelRequested)
        => /\ Processed(loops[k]) = Len(loops[k].selection)
           /\ \A p \in 1..Len(loops[k].selection) :
                 loops[k].started[loops[k].selection[p]] >= 1

\* C5: once a cancel request has been made during a run, that run starts no
\* further retrieval, whatever follows, and makes no status update to the items
\* it had not started.
C5_NoRetrievalAfterCancel ==
    [][\A k \in LoopIds :
          loops[k].cancelRequested
          => /\ loops'[k].started = loops[k].started
             /\ \A r \in loops[k].skipped : loops'[k].updated[r] = loops[k].updated[r]]_vars

\* C6: a run whose loop stopped because of a cancel request never reports the
\* Completed outcome; Completed is reported only when every item of the
\* selection was processed.
C6_CancelledNeverCompleted ==
    \A k \in LoopIds :
        loops[k].reported = "Completed"
        => Processed(loops[k]) = Len(loops[k].selection)

----------------------------------------------------------------------------
(* Claims about the status store (specification SpecStore) *)

\* C7: success is sticky: an id with a recordSuccess since the last clear()
\* derives downloaded, whatever recordFailure and recordSuccess calls followed.
C7_SuccessSticky ==
    \A id \in successRecorded : getDownloadStatus(id) = "downloaded"

\* C7 witness: a success followed by failures up to the retry limit
C7_Witness ==
    \E id \in successRecorded :
        /\ downloadStatus[id].status = "failed"
        /\ downloadStatus[id].attempts >= RETRY_ATTEMPTS
        /\ getDownloadStatus(id) = "downloaded"

C18_ClearAtomic ==
    [][/\ clear
          => /\ downloadedInvoices' = {}
             /\ ~ stored'.present
             /\ \A id \in DOMAIN downloadStatus' :
                   /\ downloadStatus'[id] = NoEntry
                   /\ DeriveStatus(downloadedInvoices', downloadStatus', id) = "pending"
       /\ downloadedInvoices' = successRecorded'
       /\ \A id \in DOMAIN downloadStatus' :
             (downloadStatus'[id] = NoEntry)
                <=> (id \notin successRecorded' /\ failuresRecorded'[id] = 0)]_vars

\* C18 witness: the state right after a clear() of a store that held a history
C18_Witness ==
    /\ clearedHistory
    /\ downloadedInvoices = {}
    /\ ~ stored.present
    /\ \A id \in DOMAIN downloadStatus :
          downloadStatus[id] = NoEntry /\ getDownloadStatus(id) = "pending"

\* C19: apart from clear(), no step decreases the attempts of an id; a
\* recordSuccess or recordFailure of an id increases that id's attempts by
\* exactly one and leaves the entries of all other ids unchanged.
C19_AttemptsCount ==
    [][/\ ~ clear
          => \A id \in DOMAIN downloadStatus :
                AttemptsOf(downloadStatus', id) >= AttemptsOf(downloadStatus, id)
       /\ \A id \in DOMAIN downloadStatus :
             (recordSuccess(id) \/ \E error \in Errors : recordFailure(id, error))
             => /\ AttemptsOf(downloadStatus', id) = AttemptsOf(downloadStatus, id) + 1
                /\ \A other \in DOMAIN downloadStatus \ {id} :
                      downloadStatus'[other] = downloadStatus[other]]_vars

\* C19 witness: an id with a success and failures, each counted once, next to
\* another id that has an entry of its own
C19_Witness ==
    \E id \in DOMAIN downloadStatus, other \in DOMAIN downloadStatus :
        /\ id # other
        /\ id \in successRecorded
        /\ failuresRecorded[id] >= 1
        /\ AttemptsOf(downloadStatus, id) = failuresRecorded[id] + 1
        /\ other \notin successRecorded
        /\ AttemptsOf(downloadStatus, other) = failuresRecorded[other]
        /\ failuresRecorded[other] >= 1

----------------------------------------------------------------------------
(* Claims about filtering (specifications SpecCache, SpecFilter, SpecApply) *)

\* C9: after any sequence of filter applications the filter memoization cache
\* holds at most FILTER_CACHE_LIMIT (50) entries.
C9_CacheBound == Len(filterCache) <= FILTER_CACHE_LIMIT


DayKey(d) == cacheKey([NoFilters EXCEPT !.dateFrom = d])

\* C30: when the cache evicts, the entry removed is the one inserted earliest
\* among those present, and no other entry is removed; a cache hit changes
\* neither the entries nor their order, so it never changes which entry is
\* evicted next.  In every step that changes the cache, one entry with a key
\* that was not cached is added behind the others, and the others are the
\* earlier entries in their order, with or without the earliest of them.
C30_EvictsOldestInserted ==
    [][filterCache' # filterCache
          => /\ ~ CacheHas(filterCache, filterCache'[Len(filterCache')].key)
             /\ \E drop \in 0..1 :
                   /\ Len(filterCache') = Len(filterCache) - drop + 1
                   /\ SubSeq(filterCache', 1, Len(filterCache) - drop)
                         = SubSeq(filterCache, 1 + drop, Len(filterCache))]_vars

\* C30 witness: the key of day 1, applied before the key of day 2, has been
\* evicted from the full cache; the key of day 2 is the oldest now
C30_Witness ==
    /\ Len(filterCache) = FILTER_CACHE_LIMIT + 1
    /\ ~ CacheHas(filterCache, DayKey(1))
    /\ filterCache[1].key = DayKey(2)

\* C10: an application of filters whose status field is non-empty leaves as
\* filtered view exactly the records (passing the other conditions) whose
\* derived status at the moment of the call equals that field.
C10_StatusFilterCurrent ==
    [][((debounceFire \/ clearFilters) /\ currentFilters'.status # "")
       => filteredRows' =
             FilterRows(currentFilters', allRows, downloadedInvoices, downloadStatus)]_vars

\* C11: applying the same filter values twice in a row returns, the second time,
\* the array the cache holds for them: the view is the one the first application
\* left and the cache is as it was, nothing being filtered again.
C11_SecondApplicationCached ==
    [][((debounceFire \/ clearFilters) /\ lastApplied.key = cacheKey(currentFilters'))
       => /\ CacheHas(filterCache, lastApplied.key)
          /\ filteredRows' = CacheGet(filterCache, lastApplied.key)
          /\ filteredRows' = filteredRows
          /\ filterCache' = filterCache]_vars

\* C11 witness: the same status filter applied twice in a row, with a status
\* update in between that a fresh filtering would have taken into account
C11_Witness ==
    /\ lastApplied.repeated
    /\ lastApplied.key = cacheKey(currentFilters)
    /\ currentFilters.status # ""
    /\ filteredRows = CacheGet(filterCache, lastApplied.key)
    /\ filteredRows # FilterRows(currentFilters, allRows, downloadedInvoices, downloadStatus)

\* C12: the output of a filter application is a subsequence of the rows: every
\* element is a row, none occurs twice and the row order is kept.  The same holds
\* of every array the cache holds.
IsSubsequenceOfRows(view) ==
    /\ \A k \in 1..Len(view) : view[k] \in 1..Len(allRows)
    /\ \A k, l \in 1..Len(view) : k < l => view[k] < view[l]

C12_Subsequence ==
    /\ IsSubsequenceOfRows(filteredRows)
    /\ \A k \in 1..Len(filterCache) : IsSubsequenceOfRows(filterCache[k].rows)

\* C12 witness: an application that kept two rows and dropped one between them
C12_Witness ==
    /\ lastApplied.key # <<>>
    /\ Len(filteredRows) >= 2
    /\ \E i \in 1..Len(allRows) :
          /\ i \notin ViewRows(filteredRows)
          /\ filteredRows[1] < i
          /\ i < filteredRows[Len(filteredRows)]

\* C13: a first (uncached) application with an empty status returns exactly the
\* rows that pass every non-empty condition: the lower-cased marketplace occurs
\* in the search text, endDate is empty or >= dateFrom, startDate is empty or
\* <= dateTo.
PassesNonEmptyConditions(filters, data) ==
    /\ filters.marketplace = <<>>
          \/ includes(data.textContent, toLowerCase(filters.marketplace))
    /\ filters.dateFrom = 0 \/ data.endDate = 0 \/ data.endDate >= filters.dateFrom
    /\ filters.dateTo = 0 \/ data.startDate = 0 \/ data.startDate <= filters.dateTo

C13_FirstApplicationExact ==
    [][((debounceFire \/ clearFilters)
          /\ ~ CacheHas(filterCache, cacheKey(currentFilters'))
          /\ currentFilters'.status = "")
       => ViewRows(filteredRows') =
             {i \in 1..Len(allRows) : PassesNonEmptyConditions(currentFilters', allRows[i])}]_vars

\* C13 witness: the first application, with a dateFrom between the end dates of
\* two rows, kept the later row and dropped the earlier one
C13_Witness ==
    /\ Len(filterCache) = 1
    /\ filterCache[1].key = lastApplied.key
    /\ lastApplied.key = cacheKey(currentFilters)
    /\ currentFilters.status = ""
    /\ \E i, j \in 1..Len(allRows) :
          /\ allRows[i].endDate # 0
          /\ allRows[i].endDate < currentFilters.dateFrom
          /\ currentFilters.dateFrom < allRows[j].endDate
          /\ i \notin ViewRows(filteredRows)
          /\ j \in ViewRows(filteredRows)

\* C14: a row whose startDate and endDate are both empty is in the result of
\* every filter application, whatever dateFrom and dateTo are, whenever it passes
\* the marketplace condition and the status condition.
C14_EmptyDatesPass ==
    [][(debounceFire \/ clearFilters)
       => \A i \in 1..Len(allRows) :
             (/\ allRows[i].startDate = 0
              /\ allRows[i].endDate = 0
              /\ currentFilters'.marketplace = <<>>
                    \/ includes(allRows[i].textContent, toLowerCase(currentFilters'.marketplace))
              /\ currentFilters'.status = ""
                    \/ currentFilters'.status = getDownloadStatus(allRows[i].invoiceId))
             => i \in ViewRows(filteredRows')]_vars

\* C20: the debounce.  Every step is of one of three kinds: a filter-input
\* change, which applies nothing and leaves the timeout pending; the firing of
\* the timeout, which applies the filters once, with the values of
\* currentFilters, and leaves no timeout; or another step, which leaves a
\* pending timeout pending and, unless it is Clear Filters, leaves currentFilters
\* alone.  So a burst of changes followed by a quiet period is applied exactly
\* once, with the values the last change left.
FilterInputChange ==
    \/ \E filterType \in DOMAIN currentFilters :
          updateFilter(filterType, currentFilters'[filterType])
    \/ quick6Months(currentFilters'.dateFrom, currentFilters'.dateTo)

C20_Debounce ==
    [][\/ /\ FilterInputChange
          /\ debounceTimer'
          /\ UNCHANGED <<filteredRows, filterCache, lastApplied>>
       \/ /\ debounceFire
          /\ ~ debounceTimer'
          /\ lastApplied'.key = cacheKey(currentFilters)
          /\ filteredRows' = CacheGet(filterCache', cacheKey(currentFilters))
       \/ /\ ~ FilterInputChange
          /\ ~ debounceFire
          /\ debounceTimer => debounceTimer'
          /\ clearFilters \/ UNCHANGED currentFilters]_vars

\* C20 witness: two input changes (marketplace and status), then the one and
\* only filter application, with both values
C20_Witness ==
    /\ ~ debounceTimer
    /\ currentFilters.marketplace # <<>>
    /\ currentFilters.status # ""
    /\ lastApplied.key = cacheKey(currentFilters)
    /\ ~ lastApplied.repeated
    /\ Len(filterCache) = 1
    /\ filterCache[1].key = lastApplied.key

----------------------------------------------------------------------------
(* Claims about the download runs on a saved history (specification SpecResumed) *)

\* C21: in a run, the retrieval of a next item starts only at the end of the
\* inter-item delay that followed the previous item's status update, and no
\* delay is waited after the last item of the run's selection.
C21_DelayBetweenItems ==
    [][\A k \in LoopIds :
          /\ loops'[k].started # loops[k].started => loops[k].pc = "sleeping"
          /\ loops'[k].pc = "sleeping" => Processed(loops'[k]) < Len(loops'[k].selection)]_vars

\* C29: a record whose status is downloaded when a run starts is never passed
\* to the retrieval step in that run: the selection of a starting run holds
\* only selected rows whose status is pending or failed, and a run starts
\* retrievals of rows of its selection only.
C29_OnlyPendingOrFailed ==
    [][/\ Len(loops') > Len(loops)
             => \A r \in {loops'[Len(loops')].selection[p] :
                             p \in 1..Len(loops'[Len(loops')].selection)} :
                    /\ allRows[r].isSelected
                    /\ getDownloadStatus(allRows[r].invoiceId) \in {"pending", "failed"}
       /\ \A k \in LoopIds : \A r \in Rows :
             loops'[k].started[r] > loops[k].started[r]
                 => \E p \in 1..Len(loops[k].selection) : loops[k].selection[p] = r]_vars

----------------------------------------------------------------------------
(* Claim about the saved history (specification SpecStore) *)

\* C24: the download history survives a reload: what is persisted after each
\* status update is the in-memory state, and a store loaded from it returns
\* the same status and the same attempts for every id.
C24_SurvivesReload ==
    LET dl == LoadedIds(stored, {})
        ds == LoadedStatus(stored, [id \in DOMAIN downloadStatus |-> NoEntry])
    IN /\ SetOf(stored.ids) = downloadedInvoices
       /\ \A id \in DOMAIN downloadStatus :
             /\ DeriveStatus(dl, ds, id) = getDownloadStatus(id)
             /\ AttemptsOf(ds, id) = AttemptsOf(downloadStatus, id)

\* C24 witness: a saved history with a downloaded id with several attempts and
\* an id that failed RETRY_ATTEMPTS times
C24_Witness ==
    /\ stored.present
    /\ \E id \in DOMAIN downloadStatus, other \in DOMAIN downloadStatus :
          /\ id \in SetOf(stored.ids)
          /\ AttemptsOf(downloadStatus, id) > 1
          /\ other \in DOMAIN stored.status
          /\ getDownloadStatus(other) = "failed"

----------------------------------------------------------------------------
(* Claim about retries within a run (specification Spec) *)

RowsOf(l) == {l.selection[p] : p \in 1..Len(l.selection)}

\* C23: a download that fails is retried automatically, without a new start
\* request, until it succeeds or RETRY_ATTEMPTS attempts have been made: a run
\* that ran to its end without a Cancel click leaves every invoice of its
\* selection either retrieved or attempted RETRY_ATTEMPTS times in that run.
C23_AutomaticRetry ==
    \A k \in 1..Len(loops) :
        loops[k].pc = "done" /\ ~ loops[k].cancelRequested
            => \A r \in RowsOf(loops[k]) :
                   \/ allRows[r].invoiceId \in successRecorded
                   \/ loops[k].updated[r] >= RETRY_ATTEMPTS

----------------------------------------------------------------------------
(* Claim about the cancel message (specification Spec) *)

\* C36: the processed count announced when a run is cancelled equals the
\* number of items of that run that have had their status update, whether the
\* run is at a retrieval or at the inter-item delay when Cancel is clicked.
C36_CancelCount ==
    [][\A k \in LoopIds :
           ~ loops[k].cancelRequested /\ loops'[k].cancelRequested
               => /\ lastAlert'.kind = "cancelled"
                  /\ lastAlert'.a = SumOver(loops[k].updated, Rows)]_vars

----------------------------------------------------------------------------
(* Claim about one retrieval (specification SpecRetrieval) *)

WaitsForEndpoint == attempt.phase \in {"urlFetch", "urlJson", "pdfFetch", "pdfBlob"}

\* C22: every retrieval attempt is bounded by its timeout: an attempt that
\* waits for an answer of a remote endpoint (URL lookup, PDF fetch, body read)
\* has its timeout pending, so that the attempt has ended as a success or a
\* recorded failure once the timeout has fired.
C22_TimeoutBounds ==
    WaitsForEndpoint => attempt.timer = "pending"

----------------------------------------------------------------------------
(* Claims about content.js (specification SpecContent) *)

\* C25: when the page loads with a saved download history, every row whose
\* invoice id is in that history ends up displayed as Downloaded: once init()
\* has run and the storage read has completed, the status cell of every row
\* whose id is in downloadedInvoices shows Downloaded.
C25_HistoryDisplayed ==
    csState = "ready" /\ csGet = "done"
        => \A r \in Rows :
               DatasetOf(r).invoiceId \in csDownloadedInvoices
                   => csRows[r].status = "Downloaded"

CancelledRun == bulk.pc = "sleeping" /\ bulk.cancelled

DisplayedDownloaded(rows) == {r \in DOMAIN rows : rows[r].status = "Downloaded"}

\* C28: after a Cancel click during a bulk download no further View button is
\* clicked in that run (no message is sent, no tab is opened), and neither the
\* Cancel click nor the rest of the run removes an invoice from the download
\* history or from the rows displayed as Downloaded.
C28_CancelStops ==
    [][/\ CancelledRun => tabs' = tabs /\ messages' = messages
       /\ bulk.pc = "sleeping" /\ bulk' # bulk
             => /\ csDownloadedInvoices \subseteq csDownloadedInvoices'
                /\ DisplayedDownloaded(csRows) \subseteq DisplayedDownloaded(csRows')]_vars

\* C28 witness: a run of two rows has ended after a Cancel click during its
\* first wait: the first row is recorded, the second was skipped
C28_Witness ==
    /\ bulk.pc = "idle"
    /\ bulk.cancelled
    /\ csAlert.kind = "cancelled"
    /\ bulk.i < Len(bulk.selectedCheckboxes)
    /\ Len(tabs) = 1
    /\ DatasetOf(bulk.selectedCheckboxes[1]).invoiceId \in csDownloadedInvoices
    /\ csRows[bulk.selectedCheckboxes[2]].checked

----------------------------------------------------------------------------
(* Claims about content.js with background.js (specification SpecTabs) *)

\* C26: every PDF saved by the background script is named from the end date,
\* the invoice id and the marketplace of the invoice whose View click opened
\* the tab the PDF was taken from.
C26_NamedAfterItsInvoice ==
    \A k \in 1..Len(downloads) :
        downloads[k].started
            => downloads[k].filename =
                  generateFilename(ExpectDownload(tabs[downloads[k].tab].invoice))

\* C27: an invoice id is in the download history only if a download of that
\* invoice's PDF has been initiated by the background script.
C27_RecordedAfterDownload ==
    \A id \in csDownloadedInvoices \cup SetOf(csStored.ids) :
        \E k \in 1..Len(downloads) :
            /\ downloads[k].started
            /\ DatasetOf(tabs[downloads[k].tab].invoice).invoiceId = id

----------------------------------------------------------------------------
(* Claim about rows without invoice number (specification SpecUnmatched) *)

\* C17: rows with the empty invoice id do not collide: such a row, as long as no
\* run has started a retrieval of it, derives pending, even when another row
\* with the empty invoice id has been downloaded or has failed.
C17_EmptyIdsIndependent ==
    \A r \in 1..Len(allRows) :
        (/\ allRows[r].invoiceId = 0
         /\ \A k \in LoopIds : loops[k].started[r] = 0)
        => getDownloadStatus(allRows[r].invoiceId) = "pending"

----------------------------------------------------------------------------
(* Claims about parsing and initialization (specification SpecInit) *)

\* The occurrence-th (from 0) date-like cell of the row exists and is no date
Unparseable(row, occurrence) ==
    LET matching == SelectSeq(row, LAMBDA c : c.dateLike) IN
    Len(matching) > occurrence /\ matching[occurrence + 1].day = 0

\* C15: the row parser is total: for every row of a chunk handed to it, parsing
\* raises no error, and a date-like cell that is no parseable date gives the
\* empty string as that date.
C15_ParserTotal ==
    \A p \in ChunkRows(Len(tableRows), initState.chunk) :
        LET parsed == parseRowData(<<>>, tableRows[p], p) IN
        /\ ~ parsed.threw
        /\ Unparseable(tableRows[p], 0) => parsed.data.startDate = 0
        /\ Unparseable(tableRows[p], 1) => parsed.data.endDate = 0

\* C16: initialization is never aborted by a row, and when it has completed the
\* row cache and allRows hold one record per table row and the initialized flag
\* is set.
C16_InitCompletes ==
    /\ initState.pc # "failed"
    /\ initState.pc = "done"
          => /\ isInitialized
             /\ Len(rowDataCache) = Len(tableRows)
             /\ Len(allRows) = Len(tableRows)

\* C31: each row index is parsed at most once (a get of a cached index returns
\* the memoized record without parsing, whatever the row), and allRows holds
\* the records in the order of the table, the record at position i having
\* index i; after the chunked initialization it holds a record for every row.
C31_ParsedOnceInOrder ==
    /\ \A p \in DOMAIN rowDataCache :
          \A row \in RowContents(p) :
              parseRowData(rowDataCache, row, p) = [threw |-> FALSE, data |-> rowDataCache[p]]
    /\ rowDataCache = allRows
    /\ \A i \in 1..Len(allRows) :
          /\ allRows[i].index = i
          /\ allRows[i] = parseRowData(<<>>, tableRows[i], i).data
    /\ initState.pc = "done" => Len(allRows) = Len(tableRows)

\* C31 witness: the initialization of a table of two chunks has completed
C31_Witness ==
    /\ initState.pc = "done"
    /\ initState.chunk = 2
    /\ Len(tableRows) = CHUNK_SIZE + 1
    /\ allRows[CHUNK_SIZE + 1].index = CHUNK_SIZE + 1

----------------------------------------------------------------------------
(* Claim about the downloads of background.js (specification SpecTabs) *)

\* C38: each expect_download message leads to at most one initiated download.
\* A step calls chrome.downloads.download at most once, only while the
\* information of a delivered message is held, and drops that information;
\* only the delivery of an expect_download message provides it again.  So
\* between two consecutive messages at most one download is initiated,
\* whatever the order of the tab-created, delayed-check and tab-updated events.
C38_OneDownloadPerMessage ==
    [][/\ downloads' # downloads
             => /\ downloads' = Append(downloads, downloads'[Len(downloads')])
                /\ currentDownloadInfo.present
                /\ ~ currentDownloadInfo'.present
       /\ ~ currentDownloadInfo.present /\ currentDownloadInfo'.present
             => /\ messages # <<>>
                /\ messages' = Tail(messages)
                /\ downloads' = downloads]_vars

\* C38 witness: one tab was opened and its message delivered; the delayed
\* check and the tab-updated event of that tab have both been handled, and
\* one download was initiated
C38_Witness ==
    /\ Len(tabs) = 1
    /\ messages = <<>>
    /\ tabs[1].check = "done"
    /\ tabs[1].updated = "delivered"
    /\ Len(downloads) = 1

----------------------------------------------------------------------------
(* Claim about the button metadata (specification SpecButton) *)

\* C32: in the metadata map of a record whose control element is present,
\* every named attribute that is absent on the element has the empty string
\* as value, never null or undefined.
C32_AbsentAttributeEmpty ==
    viewButton.extracted /\ viewButton.element.present
        => \A k \in DOMAIN DataAttributes :
               ~ viewButton.element.attributes[DataAttributes[k]].has
                   => /\ k \in DOMAIN viewButton.buttonData
                      /\ viewButton.buttonData[k] = [type |-> "string", value |-> ""]

----------------------------------------------------------------------------
(* Claims about selection and runs on a filtered view (specification SpecView) *)

\* C34: every record passed to the retrieval step in a run was, when that run
\* started, both selected and a member of the filtered view of that moment:
\* the selection of a starting run holds only selected rows of the current
\* view, and a run starts retrievals of rows of its selection only.
C34_SelectedAndInView ==
    [][/\ Len(loops') > Len(loops)
             => \A r \in RowsOf(loops'[Len(loops')]) :
                    allRows[r].isSelected /\ r \in ViewRows(filteredRows)
       /\ \A k \in LoopIds :
             loops'[k].started # loops[k].started
                 => loops'[k].invoiceData \in RowsOf(loops[k])]_vars

----------------------------------------------------------------------------
(* Claim about the view after filter operations (specification SpecDebounce) *)

\* C35: on the initialized page, whenever no debounce timeout is pending and
\* the status field of the current filters is empty, the filtered view is the
\* result of filtering all records with the current filter values.
C35_ViewIsFiltered ==
    isInitialized /\ ~ debounceTimer /\ currentFilters.status = ""
        => filteredRows =
              FilterRows(currentFilters, allRows, downloadedInvoices, downloadStatus)

\* C35 witness: after several applications (one of them with a status value,
\* and a download since), no timeout is pending, the status field is empty and
\* the marketplace value narrows the view
C35_Witness ==
    /\ isInitialized
    /\ ~ debounceTimer
    /\ currentFilters.status = ""
    /\ currentFilters.marketplace # <<>>
    /\ Len(filteredRows) < Len(allRows)
    /\ Len(filterCache) >= 3
    /\ downloadedInvoices # {}

----------------------------------------------------------------------------
(* Claim about the selection controls (specification SpecSelect) *)

\* The effect of a selection operation that writes `selected` to the rows of
\* `which`: those records change in isSelected only, every other record, the
\* status store and the filtered view stay as they are
SelectionFrame(which, selected) ==
    /\ Len(allRows') = Len(allRows)
    /\ \A r \in 1..Len(allRows) :
          allRows'[r] = IF r \in which THEN [allRows[r] EXCEPT !.isSelected = selected]
                        ELSE allRows[r]
    /\ UNCHANGED <<filteredRows, downloadedInvoices, downloadStatus, stored>>

\* C37: selectAllVisible and selectByStatus change isSelected only for records
\* of the current filtered view (selectByStatus only for those whose derived
\* status matches); the isSelected of every other record, every status entry
\* and the filtered view itself are left unchanged.
C37_SelectionFrame ==
    [][/\ \A selected \in BOOLEAN :
             selectAllVisible(selected)
                 => SelectionFrame(ViewRows(filteredRows), selected)
       /\ \A status \in {"pending", "failed"} :
             selectByStatus(status, TRUE)
                 => SelectionFrame({r \in ViewRows(filteredRows) :
                                       DeriveStatus(downloadedInvoices, downloadStatus,
                                                    allRows[r].invoiceId) = status},
                                   TRUE)]_vars

\* C37 witness: on a narrowed view, a row of the view whose status is failed
\* is selected while the other row of the view (downloaded or pending) and
\* the row outside the view are not
C37_Witness ==
    /\ ~ debounceTimer
    /\ currentFilters.marketplace # <<>>
    /\ ViewRows(filteredRows) = {1, 3}
    /\ getDownloadStatus(allRows[1].invoiceId) = "failed"
    /\ allRows[1].isSelected
    /\ ~ allRows[2].isSelected
    /\ ~ allRows[3].isSelected

============================================================================
